---------------------------- MODULE Spec2Model ----------------------------
(***************************************************************************)
(* Model of the options scalping engine of src/options_scalper.py.         *)
(*                                                                         *)
(* Two execution contexts share the OptionsScalper object ("bot"): the     *)
(* gateway's callback thread (tickPrice, orderStatus) and the polling      *)
(* scalping_loop.  The loop is split into the steps between which a        *)
(* callback can run: LoopTop (lines 512-534), LoopClassify (line 542),     *)
(* LoopAct (lines 545-637) and LoopSleep (the time.sleep calls).           *)
(*                                                                         *)
(* Time.  The source reads the clock only to form two differences, which   *)
(* it compares with a constant: the cooldown of line 585 and the age of    *)
(* the last history entry of line 150.  The model keeps these two elapsed  *)
(* times, each counted up to the constant it is compared with; time        *)
(* passes while the loop sleeps.  A third elapsed time, fill_age, is kept  *)
(* for the properties only: the time since a Sell was reported Filled.     *)
(*                                                                         *)
(* Numbers.  Prices are whole dollars (integers).  Values derived from a   *)
(* price by the decimal factors of the source (0.10, 0.25, 1.15, 0.92,     *)
(* 0.05) are kept exactly, in units of 1/Scale dollar; the multipliers of  *)
(* the configuration are kept in tenths.  Python computes them in binary   *)
(* floating point; the model computes the exact decimal values.            *)
(***************************************************************************)
EXTENDS Integers, Sequences, FiniteSets, TLC

VARIABLES
    \* ---- OptionsScalper fields (src/options_scalper.py:36-71) ----
    current_price,           \* bot.current_price, 0 = not set
    bid,                     \* bot.bid
    ask,                     \* bot.ask
    price_history,           \* bot.price_history: the prices, oldest first
    entry_age,               \* now - price_history[-1]['time'], seconds
    active_orders,           \* bot.active_orders: orderId -> record
    filled_orders,           \* bot.filled_orders: orderId -> record
    nextOrderId,             \* bot.nextOrderId
    trades_today, wins, losses, total_pnl, daily_pnl,
    bot_entry_price,         \* bot.entry_price
    highest_price_in_trade,  \* bot.highest_price_in_trade
    \* ---- locals of scalping_loop (src/options_scalper.py:489-508) ----
    in_position, current_direction, current_strike,
    entry_price, stop_loss, profit_target,
    cooldown,                \* now - last_trade_time, seconds (line 585)
    symbol_index,
    symbol, loop_price, signal,   \* symbol, current_price, signal of the cycle
    pc, sleep_for,                \* position of the loop, pending time.sleep
    \* ---- configuration: bot.config, immutable during a session ----
    config,
    \* ---- bot.option_chains, for the expiry the loop trades ----
    option_chains,           \* symbol -> sorted strikes; a symbol without
                             \* a chain for the expiry is not in the domain
    \* ---- environment ----
    ticks,                   \* number of ticks pushed since the loop started
    placed,                  \* the placeOrder calls made so far, with the
                             \* values the loop logged when it made them
    fill_age,                \* seconds since the last Sell order was reported
                             \* Filled, counted up to cooldown_seconds
    event,                   \* the last callback logged at line 80 or 170
    \* ---- harness of the stop/target calculator ----
    calc_in, calc_out,       \* the inputs, and << result >> once computed
    \* ---- harness of detect_momentum ----
    class_in, class_out,     \* the window, and << signal >> once computed
    \* ---- harness of tickPrice ----
    tick_in,                 \* the arguments of the last tickPrice call
    \* ---- harness of update_trailing_stop ----
    trail_in, trail_out,     \* the inputs, and << result >> once computed
    \* ---- harness of find_scalping_strike ----
    strike_in, strike_out,   \* the arguments, and << result >> once computed
    \* ---- client_id_manager.py: the two files and the callers ----
    lock_file,               \* LOCK_FILE: 0 = absent, else the number of the
                             \* touch that created it
    touches,                 \* number of lock files created so far
    id_file,                 \* CLIENT_ID_FILE: << >> = absent, else << data >>
    procs                    \* the callers of get_next_available_id

vars == << current_price, bid, ask, price_history, entry_age,
           active_orders, filled_orders, nextOrderId,
           trades_today, wins, losses, total_pnl, daily_pnl,
           bot_entry_price, highest_price_in_trade,
           in_position, current_direction, current_strike,
           entry_price, stop_loss, profit_target,
           cooldown, symbol_index, symbol, loop_price, signal,
           pc, sleep_for, config, option_chains, ticks, placed, fill_age, event,
           calc_in, calc_out, class_in, class_out,
           tick_in, trail_in, trail_out, strike_in, strike_out,
           lock_file, touches, id_file, procs >>

botPriceVars == << current_price, bid, ask, price_history, entry_age >>
botOrderVars == << active_orders, filled_orders, nextOrderId >>
botStatVars  == << trades_today, wins, losses, total_pnl, daily_pnl,
                   bot_entry_price >>
loopVars     == << in_position, current_direction, current_strike,
                   entry_price, stop_loss, profit_target,
                   cooldown, symbol_index, symbol, loop_price, signal,
                   pc, sleep_for >>
calcVars     == << calc_in, calc_out >>
classVars    == << class_in, class_out >>
trailVars    == << trail_in, trail_out >>
idVars       == << lock_file, touches, id_file, procs >>
strikeVars   == << strike_in, strike_out >>
harnessVars  == << calcVars, classVars, tick_in, trailVars, strikeVars,
                   idVars >>

-----------------------------------------------------------------------------
(* Program constants *)

Scale == 1000                  \* derived prices are in 1/1000 dollar
HistoryMaxLen == 100           \* deque(maxlen=100)
Period == 20                   \* detect_momentum(price_history, period=20)
MinStopLoss == 50              \* 0.05 dollar, in 1/Scale dollar
ContractMultiplier == 5        \* pnl = ... * quantity * 5
Quantity == 1                  \* place_scalp_order(..., quantity=1)
FirstOrderId == 1              \* nextValidId(orderId)

(* Bounds of the model *)

MaxTicks == 2                  \* ticks pushed after the loop has started
MaxOrders == 3                 \* orders the loop may place

(* The configuration of a session (scalper_config.yaml, read at line 669).  *)
(* The multipliers are in tenths and max_daily_loss_pct in percent; the     *)
(* multipliers are the defaults of lines 367-368.                           *)
BaseConfig ==
    [ symbols |-> << "MES" >>,
      max_trades_per_day |-> 1,
      cooldown_seconds |-> 2,
      allow_reversals |-> TRUE,
      max_daily_loss_pct |-> 10,
      account_balance |-> 200,
      stop_loss_multiplier |-> 10,
      profit_target_multiplier |-> 20 ]

SessionConfigs ==
    { [BaseConfig EXCEPT !.allow_reversals = b] : b \in BOOLEAN }

\* One trade a day, and a daily loss limit out of reach.
BurstConfig == [BaseConfig EXCEPT !.account_balance = 1000]
MaxBurstOrders == 4

TickPrices == {95, 120, 130, 150}
Statuses == {"Submitted", "Filled", "Cancelled", "Rejected"}

\* Price histories the feed has built when the loop starts: main() subscribes
\* to the feed (line 707) well before it calls scalping_loop (line 761).
Rising  == [i \in 1..Period |-> 80 + i]     \* 81 .. 100
Falling == [i \in 1..Period |-> 120 - i]    \* 119 .. 100
StartHistories == {Rising, Falling}
MidAgeLimit == 1               \* total_seconds() > 1, line 150

NoOrders == [i \in {} |-> 0]
NoChains == [s \in {} |-> << >>]      \* self.option_chains = {}, line 48
Min(a, b) == IF a < b THEN a ELSE b
Max(a, b) == IF a > b THEN a ELSE b

-----------------------------------------------------------------------------
(* detect_momentum *)

\* (last - first) / first * 100 > thr/1000, for first > 0
RocAbove(first, last, thr) == (last - first) * 100 * 1000 > thr * first
\* (last - first) / first * 100 < -thr/1000, for first > 0
RocBelow(first, last, thr) == (last - first) * 100 * 1000 < (0 - thr) * first

UpMoves(prices) ==
    Cardinality({i \in 2..Len(prices) : prices[i] > prices[i-1]})

\* Variants of detect_momentum with a plausible slip: a window shorter than
\* the period is classified on the points it has; the trend checks come
\* before the reversal checks; a reversal is read off the recent 5 points
\* alone.
DetectMomentumShortWindow(history, period) ==
    IF Len(history) < 2 THEN "NEUTRAL"
    ELSE
      LET m      == IF Len(history) < period THEN Len(history) ELSE period
          prices == SubSeq(history, Len(history) - m + 1, Len(history))
          n      == Len(prices)
          up     == UpMoves(prices)
      IN  IF n >= 10 /\ RocBelow(prices[n-9], prices[n-5], 100)
                     /\ RocAbove(prices[n-4], prices[n], 200)
            THEN "REVERSAL_UP"
          ELSE IF n >= 10 /\ RocAbove(prices[n-9], prices[n-5], 100)
                          /\ RocBelow(prices[n-4], prices[n], 200)
            THEN "REVERSAL_DOWN"
          ELSE IF RocAbove(prices[1], prices[n], 150) /\ up * 100 > 55 * (n - 1)
            THEN "BULLISH"
          ELSE IF RocBelow(prices[1], prices[n], 150) /\ up * 100 < 45 * (n - 1)
            THEN "BEARISH"
          ELSE "NEUTRAL"

DetectMomentumTrendFirst(history, period) ==
    IF Len(history) < period THEN "NEUTRAL"
    ELSE
      LET prices == SubSeq(history, Len(history) - period + 1, Len(history))
          n      == Len(prices)
          up     == UpMoves(prices)
      IN  IF RocAbove(prices[1], prices[n], 150) /\ up * 100 > 55 * (n - 1)
            THEN "BULLISH"
          ELSE IF RocBelow(prices[1], prices[n], 150) /\ up * 100 < 45 * (n - 1)
            THEN "BEARISH"
          ELSE IF n >= 10 /\ RocBelow(prices[n-9], prices[n-5], 100)
                          /\ RocAbove(prices[n-4], prices[n], 200)
            THEN "REVERSAL_UP"
          ELSE IF n >= 10 /\ RocAbove(prices[n-9], prices[n-5], 100)
                          /\ RocBelow(prices[n-4], prices[n], 200)
            THEN "REVERSAL_DOWN"
          ELSE "NEUTRAL"

DetectMomentumRecentOnly(history, period) ==
    IF Len(history) < period THEN "NEUTRAL"
    ELSE
      LET prices == SubSeq(history, Len(history) - period + 1, Len(history))
          n      == Len(prices)
          up     == UpMoves(prices)
      IN  IF n >= 10 /\ RocAbove(prices[n-4], prices[n], 200)
            THEN "REVERSAL_UP"
          ELSE IF n >= 10 /\ RocBelow(prices[n-4], prices[n], 200)
            THEN "REVERSAL_DOWN"
          ELSE IF RocAbove(prices[1], prices[n], 150) /\ up * 100 > 55 * (n - 1)
            THEN "BULLISH"
          ELSE IF RocBelow(prices[1], prices[n], 150) /\ up * 100 < 45 * (n - 1)
            THEN "BEARISH"
          ELSE "NEUTRAL"

DetectMomentum(history, period) ==
    IF Len(history) < period THEN "NEUTRAL"
    ELSE
      LET prices == SubSeq(history, Len(history) - period + 1, Len(history))
          n      == Len(prices)
          up     == UpMoves(prices)
          recent_5 == SubSeq(prices, n - 4, n)
          older_5  == SubSeq(prices, n - 9, n - 5)
      IN  IF n >= 10 /\ RocBelow(older_5[1], older_5[5], 100)
                     /\ RocAbove(recent_5[1], recent_5[5], 200)
            THEN "REVERSAL_UP"
          ELSE IF n >= 10 /\ RocAbove(older_5[1], older_5[5], 100)
                          /\ RocBelow(recent_5[1], recent_5[5], 200)
            THEN "REVERSAL_DOWN"
          ELSE IF RocAbove(prices[1], prices[n], 150) /\ up * 100 > 55 * (n - 1)
            THEN "BULLISH"
          ELSE IF RocBelow(prices[1], prices[n], 150) /\ up * 100 < 45 * (n - 1)
            THEN "BEARISH"
          ELSE "NEUTRAL"

-----------------------------------------------------------------------------
(* calculate_stops, update_trailing_stop *)

\* Variants of calculate_stops with a plausible slip, used to test the checks:
\* the target multiplier is not applied; the stop has no floor.
CalculateStopsNoTargetMultiplier(entry, stop_multiplier, target_multiplier) ==
    LET stop == entry * Scale - entry * 10 * stop_multiplier
    IN  [ stop_loss     |-> Max(MinStopLoss, stop),
          profit_target |-> entry * Scale + entry * 250,
          trailing_stop_activation |-> entry * 1150 ]

CalculateStopsNoFloor(entry, stop_multiplier, target_multiplier) ==
    [ stop_loss     |-> entry * Scale - entry * 10 * stop_multiplier,
      profit_target |-> entry * Scale + entry * 25 * target_multiplier,
      trailing_stop_activation |-> entry * 1150 ]

CalculateStops(entry, stop_multiplier, target_multiplier) ==
    LET stop_distance   == entry * 10 * stop_multiplier     \* entry*0.10*m
        target_distance == entry * 25 * target_multiplier   \* entry*0.25*m
        stop            == entry * Scale - stop_distance
    IN  [ stop_loss     |-> Max(MinStopLoss, stop),
          profit_target |-> entry * Scale + target_distance,
          trailing_stop_activation |-> entry * 1150 ]

\* trailing_pct = 0.08 at the call of line 547: highest * (1 - 0.08)
TrailingStopOf(highest) == highest * 920

\* Variant: the highest price is tracked also when the price is not above
\* the entry.
UpdateTrailingStopAlwaysTracks(highest, price, entry) ==
    LET h == IF price > highest THEN price ELSE highest
    IN  IF price <= entry
          THEN [ highest |-> h, some |-> FALSE, stop |-> 0 ]
        ELSE IF TrailingStopOf(h) > entry * Scale
          THEN [ highest |-> h, some |-> TRUE, stop |-> TrailingStopOf(h) ]
        ELSE [ highest |-> h, some |-> FALSE, stop |-> 0 ]

\* Returns the new bot.highest_price_in_trade and the returned stop, if any.
UpdateTrailingStop(highest, price, entry) ==
    IF price <= entry
      THEN [ highest |-> highest, some |-> FALSE, stop |-> 0 ]
    ELSE
      LET h == IF price > highest THEN price ELSE highest
      IN  IF TrailingStopOf(h) > entry * Scale
            THEN [ highest |-> h, some |-> TRUE, stop |-> TrailingStopOf(h) ]
            ELSE [ highest |-> h, some |-> FALSE, stop |-> 0 ]

\* Variant: the returned stop is taken without comparing it with the old one.
NewStopLossUnguarded(stop, ts) ==
    IF ts.some /\ ts.stop # 0 THEN ts.stop ELSE stop

\* lines 548-550: the stop after the trailing update of the cycle
NewStopLoss(stop, ts) ==
    IF ts.some /\ ts.stop # 0 /\ ts.stop > stop THEN ts.stop ELSE stop

\* Variants: allow_reversals is not consulted; REVERSAL_DOWN is not an exit.
ExitReasonIgnoringFlag(price, target, stop, sig, direction, reversals) ==
    IF price * Scale >= target THEN "Profit target"
    ELSE IF price * Scale <= stop THEN "Stop loss"
    ELSE IF sig \in {"REVERSAL_DOWN", "BEARISH"} /\ direction = "CALL"
      THEN "Reversal DOWN"
    ELSE IF sig \in {"REVERSAL_UP", "BULLISH"} /\ direction = "PUT"
      THEN "Reversal UP"
    ELSE ""

ExitReasonBearishOnly(price, target, stop, sig, direction, reversals) ==
    IF price * Scale >= target THEN "Profit target"
    ELSE IF price * Scale <= stop THEN "Stop loss"
    ELSE IF reversals
      THEN IF sig = "BEARISH" /\ direction = "CALL" THEN "Reversal DOWN"
           ELSE IF sig = "BULLISH" /\ direction = "PUT" THEN "Reversal UP"
           ELSE ""
    ELSE ""

\* lines 553-574: the reason logged for the exit, "" when should_exit is False
ExitReason(price, target, stop, sig, direction, reversals) ==
    IF price * Scale >= target THEN "Profit target"
    ELSE IF price * Scale <= stop THEN "Stop loss"
    ELSE IF reversals
      THEN IF sig \in {"REVERSAL_DOWN", "BEARISH"} /\ direction = "CALL"
             THEN "Reversal DOWN"
           ELSE IF sig \in {"REVERSAL_UP", "BULLISH"} /\ direction = "PUT"
             THEN "Reversal UP"
           ELSE ""
    ELSE ""

-----------------------------------------------------------------------------
(* find_scalping_strike, without chain data: lines 324-329 *)

\* Python's round(): to the nearest integer, a tie to the even one
RoundHalfEven(num, den) ==
    LET q == num \div den
        r == num % den
    IN  IF 2 * r < den THEN q
        ELSE IF 2 * r > den THEN q + 1
        ELSE IF q % 2 = 0 THEN q ELSE q + 1

\* sorted(strikes), line 113
RECURSIVE Sorted(_)
Sorted(S) ==
    IF S = {} THEN << >>
    ELSE LET least == CHOOSE x \in S : \A y \in S : x <= y
         IN  << least >> \o Sorted(S \ {least})

\* None (lines 336, 495): no strike is negative
NoStrike == 0 - 1

Abs(x) == IF x < 0 THEN 0 - x ELSE x

\* min(available_strikes, key=lambda x: abs(x - current_price)): the first
\* of the strikes at the least distance
NearestStrike(strikes, price) ==
    strikes[CHOOSE i \in 1..Len(strikes) :
              /\ \A j \in 1..Len(strikes) :
                    Abs(strikes[i] - price) <= Abs(strikes[j] - price)
              /\ \A j \in 1..(i-1) :
                    Abs(strikes[j] - price) > Abs(strikes[i] - price)]

\* Variant: the nearest strike whatever the direction.
FindScalpingStrikeNearest(sym, price, direction) ==
    IF sym \notin DOMAIN option_chains
      THEN LET interval == IF sym = "MES" THEN 5 ELSE 50
           IN  RoundHalfEven(price, interval) * interval
    ELSE IF option_chains[sym] = << >> THEN NoStrike
    ELSE NearestStrike(option_chains[sym], price)

FindScalpingStrike(sym, price, direction) ==
    IF sym \notin DOMAIN option_chains
      THEN \* lines 324-329: both directions get atm
           LET interval == IF sym = "MES" THEN 5 ELSE 50
           IN  RoundHalfEven(price, interval) * interval
    ELSE
      LET available_strikes == option_chains[sym]
          listed == {available_strikes[i] : i \in 1..Len(available_strikes)}
          itm_strikes == IF direction = "CALL"
                           THEN {s \in listed : s <= price}
                           ELSE {s \in listed : s >= price}
      IN  IF available_strikes = << >> THEN NoStrike
          ELSE IF itm_strikes = {}
                 THEN NearestStrike(available_strikes, price)
          ELSE IF direction = "CALL"
                 THEN CHOOSE s \in itm_strikes : \A t \in itm_strikes : t <= s
                 ELSE CHOOSE s \in itm_strikes : \A t \in itm_strikes : s <= t

-----------------------------------------------------------------------------
(* Initial state: scalping_loop is entered (line 761), no order was placed  *)
(* yet, the feed has pushed last-trade ticks since line 707.                *)

InitBot ==
    /\ price_history \in StartHistories
    /\ current_price = price_history[Len(price_history)]
    /\ bid = 0 /\ ask = 0 /\ entry_age = 0
    /\ active_orders = NoOrders /\ filled_orders = NoOrders
    /\ nextOrderId = FirstOrderId
    /\ trades_today = 0 /\ wins = 0 /\ losses = 0
    /\ total_pnl = 0 /\ daily_pnl = 0
    /\ bot_entry_price = 0 /\ highest_price_in_trade = 0

InitLoop ==
    /\ in_position = FALSE /\ current_direction = "None"
    /\ current_strike = NoStrike
    /\ entry_price = 0 /\ stop_loss = 0 /\ profit_target = 0
    /\ cooldown = 0 /\ symbol_index = 0
    /\ symbol = "None" /\ loop_price = 0 /\ signal = "None"
    /\ pc = "top" /\ sleep_for = 0

NoEvent == [orderId |-> 0, status |-> "None"]
NoTick == [tickType |-> 0, price |-> 0]

\* The parts that a specification does not exercise stay as they start.
IdleTick == tick_in = NoTick
IdleTrail == trail_in = [highest |-> 0, price |-> 0, entry |-> 0]
             /\ trail_out = << >>
IdleStrike == strike_in = [symbol |-> "None", price |-> 0, direction |-> "None"]
              /\ strike_out = << >>
IdleIds == lock_file = 0 /\ touches = 0 /\ id_file = << >> /\ procs = << >>

Init ==
    /\ InitBot /\ InitLoop
    /\ config \in SessionConfigs
    /\ option_chains = NoChains
    /\ ticks = 0
    /\ placed = << >>
    /\ fill_age = config.cooldown_seconds       \* no Sell was filled yet
    /\ event = NoEvent
    /\ calc_in = [entry |-> 0, sm |-> 0, tm |-> 0] /\ calc_out = << >>
    /\ class_in = << >> /\ class_out = << >>
    /\ IdleTick /\ IdleTrail /\ IdleStrike /\ IdleIds

-----------------------------------------------------------------------------
(* tickPrice: lines 122-153 *)

\* Variant: a full history drops its newest entry, not its oldest.
Append100DropsNewest(history, p) ==
    IF Len(history) >= HistoryMaxLen
      THEN Append(SubSeq(history, 1, Len(history) - 1), p)
    ELSE Append(history, p)

Append100(history, p) ==
    IF Len(history) >= HistoryMaxLen THEN Append(Tail(history), p)
    ELSE Append(history, p)

\* Variant: a close tick always sets the current price.
TickPriceCloseOverwrites(tickType, price) ==
    IF price <= 0 THEN UNCHANGED botPriceVars
    ELSE
      LET bid1 == IF tickType = 1 THEN price ELSE bid
          ask1 == IF tickType = 2 THEN price ELSE ask
          cur1 == IF tickType \in {4, 9} THEN price
                  ELSE IF tickType \in {1, 2} /\ current_price = 0 THEN price
                  ELSE current_price
          hist1 == IF tickType = 4 THEN Append100(price_history, price)
                   ELSE price_history
          age1  == IF tickType = 4 THEN 0 ELSE entry_age
          synth == /\ Len(hist1) < 5 /\ bid1 > 0 /\ ask1 > 0
                   /\ (hist1 = << >> \/ age1 > MidAgeLimit)
          mid   == (bid1 + ask1) \div 2
      IN  /\ bid' = bid1
          /\ ask' = ask1
          /\ price_history' = IF synth THEN Append100(hist1, mid) ELSE hist1
          /\ entry_age' = IF synth THEN 0 ELSE age1
          /\ current_price' = IF synth /\ cur1 = 0 THEN mid ELSE cur1

\* Variant: the mid entry is added whatever the age of the last entry.
TickPriceMidEveryTick(tickType, price) ==
    IF price <= 0 THEN UNCHANGED botPriceVars
    ELSE
      LET bid1 == IF tickType = 1 THEN price ELSE bid
          ask1 == IF tickType = 2 THEN price ELSE ask
          cur1 == IF tickType = 4 THEN price
                  ELSE IF tickType \in {1, 2, 9} /\ current_price = 0 THEN price
                  ELSE current_price
          hist1 == IF tickType = 4 THEN Append100(price_history, price)
                   ELSE price_history
          age1  == IF tickType = 4 THEN 0 ELSE entry_age
          synth == Len(hist1) < 5 /\ bid1 > 0 /\ ask1 > 0
          mid   == (bid1 + ask1) \div 2
      IN  /\ bid' = bid1
          /\ ask' = ask1
          /\ price_history' = IF synth THEN Append100(hist1, mid) ELSE hist1
          /\ entry_age' = IF synth THEN 0 ELSE age1
          /\ current_price' = IF synth /\ cur1 = 0 THEN mid ELSE cur1

TickPrice(tickType, price) ==
    IF price <= 0 THEN UNCHANGED botPriceVars
    ELSE
      LET bid1 == IF tickType = 1 THEN price ELSE bid
          ask1 == IF tickType = 2 THEN price ELSE ask
          cur1 == IF tickType = 4 THEN price
                  ELSE IF tickType \in {1, 2, 9} /\ current_price = 0 THEN price
                  ELSE current_price
          hist1 == IF tickType = 4 THEN Append100(price_history, price)
                   ELSE price_history
          age1  == IF tickType = 4 THEN 0 ELSE entry_age
          \* lines 147-153; (bid + ask) / 2 in whole dollars
          synth == /\ Len(hist1) < 5 /\ bid1 > 0 /\ ask1 > 0
                   /\ (hist1 = << >> \/ age1 > MidAgeLimit)
          mid   == (bid1 + ask1) \div 2
      IN  /\ bid' = bid1
          /\ ask' = ask1
          /\ price_history' = IF synth THEN Append100(hist1, mid) ELSE hist1
          /\ entry_age' = IF synth THEN 0 ELSE age1
          /\ current_price' = IF synth /\ cur1 = 0 THEN mid ELSE cur1

\* The feed pushes a last-trade price.
Tick ==
    /\ ticks < MaxTicks
    /\ \E p \in TickPrices : TickPrice(4, p)
    /\ ticks' = ticks + 1
    /\ UNCHANGED << botOrderVars, botStatVars, highest_price_in_trade,
                    loopVars, config, option_chains, placed, fill_age, event, harnessVars >>

-----------------------------------------------------------------------------
(* orderStatus and on_order_filled: lines 167-180, 192-218 *)

Without(f, k) == [x \in DOMAIN f \ {k} |-> f[x]]

\* Variant: a trade that breaks even counts as neither a win nor a loss.
OnOrderFilledBreakEvenUncounted(order_info, avgPrice) ==
    IF order_info.action = "BUY"
      THEN /\ bot_entry_price' = avgPrice
           /\ highest_price_in_trade' = avgPrice
           /\ UNCHANGED << trades_today, wins, losses, total_pnl, daily_pnl >>
    ELSE IF order_info.action = "SELL" /\ bot_entry_price > 0
      THEN LET pnl == (avgPrice - bot_entry_price) * order_info.quantity
                          * ContractMultiplier
           IN  /\ total_pnl' = total_pnl + pnl
               /\ daily_pnl' = daily_pnl + pnl
               /\ trades_today' = trades_today + 1
               /\ wins' = IF pnl > 0 THEN wins + 1 ELSE wins
               /\ losses' = IF pnl < 0 THEN losses + 1 ELSE losses
               /\ bot_entry_price' = 0
               /\ UNCHANGED highest_price_in_trade
    ELSE UNCHANGED << botStatVars, highest_price_in_trade >>

OnOrderFilled(order_info, avgPrice) ==
    IF order_info.action = "BUY"
      THEN /\ bot_entry_price' = avgPrice
           /\ highest_price_in_trade' = avgPrice
           /\ UNCHANGED << trades_today, wins, losses, total_pnl, daily_pnl >>
    ELSE IF order_info.action = "SELL" /\ bot_entry_price > 0
      THEN LET pnl == (avgPrice - bot_entry_price) * order_info.quantity
                          * ContractMultiplier
           IN  /\ total_pnl' = total_pnl + pnl
               /\ daily_pnl' = daily_pnl + pnl
               /\ trades_today' = trades_today + 1
               /\ wins' = IF pnl > 0 THEN wins + 1 ELSE wins
               /\ losses' = IF pnl > 0 THEN losses ELSE losses + 1
               /\ bot_entry_price' = 0
               /\ UNCHANGED highest_price_in_trade
    ELSE UNCHANGED << botStatVars, highest_price_in_trade >>

\* Variant: an event for an id that is not in active_orders opens a record.
OrderStatusRecordsUnknown(orderId, status, avgFillPrice) ==
    /\ LET book == IF orderId \in DOMAIN active_orders THEN active_orders
                   ELSE (orderId :> [ action |-> "BUY", quantity |-> Quantity,
                                      status |-> "Submitted", avgPrice |-> 0 ])
                            @@ active_orders
           rec  == [book[orderId] EXCEPT
                       !.status = status, !.avgPrice = avgFillPrice]
       IN  IF status = "Filled"
             THEN /\ filled_orders' = (orderId :> rec) @@ filled_orders
                  /\ active_orders' = Without(book, orderId)
                  /\ OnOrderFilled(rec, avgFillPrice)
             ELSE /\ active_orders' = [book EXCEPT ![orderId] = rec]
                  /\ UNCHANGED << filled_orders, botStatVars,
                                  highest_price_in_trade >>
    /\ UNCHANGED << botPriceVars, nextOrderId, loopVars, config, option_chains,
                    ticks, placed, harnessVars >>

OrderStatus(orderId, status, avgFillPrice) ==
    /\ IF orderId \in DOMAIN active_orders
         THEN LET rec == [active_orders[orderId] EXCEPT
                             !.status = status, !.avgPrice = avgFillPrice]
              IN  IF status = "Filled"
                    THEN /\ filled_orders' = (orderId :> rec) @@ filled_orders
                         /\ active_orders' = Without(active_orders, orderId)
                         /\ OnOrderFilled(rec, avgFillPrice)
                    ELSE /\ active_orders' =
                                [active_orders EXCEPT ![orderId] = rec]
                         /\ UNCHANGED << filled_orders, botStatVars,
                                         highest_price_in_trade >>
         ELSE UNCHANGED << active_orders, filled_orders, botStatVars,
                           highest_price_in_trade >>
    /\ UNCHANGED << botPriceVars, nextOrderId, loopVars, config, option_chains,
                    ticks, placed, harnessVars >>

\* The gateway reports a status of any order id, known or not, at any time
\* and any number of times.  The orders are market orders: a fill is at the
\* price the feed pushed last.
\* The step reports a Sell order as Filled: the position is closed.
SellFilled(orderId, status) ==
    /\ status = "Filled"
    /\ orderId \in DOMAIN active_orders
    /\ active_orders[orderId].action = "SELL"

OrderEvent ==
    \E orderId \in FirstOrderId..(FirstOrderId + MaxOrders) :
      \E status \in Statuses :
        /\ OrderStatus(orderId, status,
                       IF status = "Filled" THEN current_price ELSE 0)
        /\ fill_age' = IF SellFilled(orderId, status) THEN 0 ELSE fill_age
        /\ UNCHANGED event

-----------------------------------------------------------------------------
(* place_scalp_order and close_position: lines 408-478.  The record kept in *)
(* placed is the placeOrder call (orderId, action, contract, quantity)      *)
(* together with what the loop knew when it made the call: the price and    *)
(* signal of the cycle, the logged exit reason, entry, stop and target, the *)
(* number of the position (the count of Buy orders so far), the recorded    *)
(* status of that position's Buy order.                                     *)

OrderRecord(action) ==
    [ action |-> action, quantity |-> Quantity, status |-> "Submitted",
      avgPrice |-> 0 ]

RecordedStatus(orderId) ==
    IF orderId \in DOMAIN active_orders THEN active_orders[orderId].status
    ELSE IF orderId \in DOMAIN filled_orders THEN filled_orders[orderId].status
    ELSE "Unknown"

Buys(log) == {i \in 1..Len(log) : log[i].action = "BUY"}
Sells(log) == {i \in 1..Len(log) : log[i].action = "SELL"}

\* The Buy order of the position the loop holds: the last Buy placed.
LastBuyId(log) ==
    IF Buys(log) = {} THEN 0
    ELSE log[CHOOSE i \in Buys(log) : \A j \in Buys(log) : j <= i].orderId

\* How many placeOrder calls a session is followed for: one more in the
\* session of SpecBurst.
OrderCap == IF config = BurstConfig THEN MaxBurstOrders ELSE MaxOrders

PlaceOrder(action, sym, strike, direction, reason, entry, stop, target) ==
    /\ Len(placed) < OrderCap
    /\ active_orders' = (nextOrderId :> OrderRecord(action)) @@ active_orders
    /\ nextOrderId' = nextOrderId + 1
    /\ placed' = Append(placed,
          [ orderId |-> nextOrderId, action |-> action, symbol |-> sym,
            strike |-> strike, direction |-> direction,
            quantity |-> Quantity,
            reason |-> reason, price |-> loop_price, signal |-> signal,
            entry |-> entry, stop |-> stop, target |-> target,
            pos |-> Cardinality(Buys(placed))
                      + (IF action = "BUY" THEN 1 ELSE 0),
            buy_status |-> IF action = "BUY" THEN "None"
                           ELSE RecordedStatus(LastBuyId(placed)) ])

-----------------------------------------------------------------------------
(* scalping_loop: lines 510-651 *)

GoSleep(seconds) == pc' = "sleep" /\ sleep_for' = seconds

\* Variant: the limit itself still passes.
TradeGateOffByOne == trades_today <= config.max_trades_per_day

\* line 513
TradeGate == trades_today < config.max_trades_per_day
\* lines 519-520: daily_pnl < -(max_daily_loss_pct * account_balance)
LossGate ==
    ~ (daily_pnl * 100 < 0 - config.max_daily_loss_pct * config.account_balance)

\* lines 512-534: the gates, the rotation, the read of the current price
LoopTop ==
    /\ pc = "top"
    /\ IF ~ TradeGate
         THEN GoSleep(60) /\ UNCHANGED << symbol_index, symbol, loop_price >>
       ELSE IF ~ LossGate
         THEN GoSleep(300) /\ UNCHANGED << symbol_index, symbol, loop_price >>
       ELSE IF current_price = 0
         THEN GoSleep(1) /\ UNCHANGED << symbol_index, symbol, loop_price >>
       ELSE /\ symbol' = config.symbols[(symbol_index % Len(config.symbols)) + 1]
            \* symbol_index is only read modulo len(symbols)
            /\ symbol_index' = (symbol_index + 1) % Len(config.symbols)
            /\ loop_price' = current_price
            /\ pc' = "classify"
            /\ UNCHANGED sleep_for
    /\ UNCHANGED << botPriceVars, botOrderVars, botStatVars,
                    highest_price_in_trade,
                    in_position, current_direction, current_strike,
                    entry_price, stop_loss, profit_target, cooldown,
                    signal, config, option_chains, ticks, placed, fill_age, event,
                    harnessVars >>

\* line 542
LoopClassify ==
    /\ pc = "classify"
    /\ signal' = DetectMomentum(price_history, Period)
    /\ pc' = "act"
    /\ UNCHANGED << botPriceVars, botOrderVars, botStatVars,
                    highest_price_in_trade,
                    in_position, current_direction, current_strike,
                    entry_price, stop_loss, profit_target, cooldown,
                    symbol_index, symbol, loop_price, sleep_for,
                    config, option_chains, ticks, placed, fill_age, event, harnessVars >>

\* lines 545-581: the position is managed
ManagePosition ==
    LET ts     == UpdateTrailingStop(highest_price_in_trade, loop_price,
                                     entry_price)
        stop1  == NewStopLoss(stop_loss, ts)
        reason == ExitReason(loop_price, profit_target, stop1, signal,
                             current_direction, config.allow_reversals)
    IN  /\ highest_price_in_trade' = ts.highest
        /\ stop_loss' = stop1
        /\ IF reason # ""
             THEN /\ PlaceOrder("SELL", symbol, current_strike,
                                current_direction, reason, entry_price,
                                stop1, profit_target)
                  /\ in_position' = FALSE
                  /\ cooldown' = 0          \* last_trade_time = now
                  /\ GoSleep(2 + 1)
             ELSE /\ GoSleep(1)
                  /\ UNCHANGED << botOrderVars, placed, in_position,
                                  cooldown >>
        /\ UNCHANGED << current_direction, current_strike, entry_price,
                        profit_target >>

\* Variant: the order is placed whether a strike was found or not.
EnterUnchecked(direction) ==
    LET strike == FindScalpingStrike(symbol, loop_price, direction)
        stops  == CalculateStops(loop_price, config.stop_loss_multiplier,
                                 config.profit_target_multiplier)
    IN  /\ current_strike' = strike
        /\ current_direction' = direction
        /\ PlaceOrder("BUY", symbol, strike, direction, "", loop_price,
                      stops.stop_loss, stops.profit_target)
        /\ in_position' = TRUE
        /\ entry_price' = loop_price
        /\ stop_loss' = stops.stop_loss
        /\ profit_target' = stops.profit_target
        /\ GoSleep(1)
        /\ UNCHANGED << cooldown, highest_price_in_trade >>

\* lines 597-613 and 621-637; without a strike (lines 598-601, 622-625) the
\* cycle sleeps 5 seconds and starts over
Enter(direction) ==
    LET strike == FindScalpingStrike(symbol, loop_price, direction)
        stops  == CalculateStops(loop_price, config.stop_loss_multiplier,
                                 config.profit_target_multiplier)
    IN  IF strike = NoStrike
          THEN /\ current_strike' = NoStrike
               /\ GoSleep(5)
               /\ UNCHANGED << botOrderVars, placed, in_position,
                               current_direction, entry_price, stop_loss,
                               profit_target, cooldown,
                               highest_price_in_trade >>
          ELSE /\ current_strike' = strike
               /\ current_direction' = direction
               /\ PlaceOrder("BUY", symbol, strike, direction, "",
                             loop_price, stops.stop_loss,
                             stops.profit_target)
               /\ in_position' = TRUE
               /\ entry_price' = loop_price
               /\ stop_loss' = stops.stop_loss
               /\ profit_target' = stops.profit_target
               /\ GoSleep(1)
               /\ UNCHANGED << cooldown, highest_price_in_trade >>

\* lines 583-637: no position, an entry is looked for
LookForEntry ==
    IF cooldown < config.cooldown_seconds
      THEN /\ GoSleep(1)
           /\ UNCHANGED << botOrderVars, placed, highest_price_in_trade,
                           in_position, current_direction, current_strike,
                           entry_price, stop_loss, profit_target,
                           cooldown >>
    ELSE IF signal \in {"BULLISH", "REVERSAL_UP"} THEN Enter("CALL")
    ELSE IF signal \in {"BEARISH", "REVERSAL_DOWN"} THEN Enter("PUT")
    ELSE /\ GoSleep(1)
         /\ UNCHANGED << botOrderVars, placed, highest_price_in_trade,
                         in_position, current_direction, current_strike,
                         entry_price, stop_loss, profit_target,
                         cooldown >>

LoopAct ==
    /\ pc = "act"
    /\ IF in_position THEN ManagePosition ELSE LookForEntry
    /\ UNCHANGED << botPriceVars, filled_orders, botStatVars,
                    symbol_index, symbol, loop_price, signal,
                    config, option_chains, ticks, fill_age, event, harnessVars >>

\* the time.sleep calls: lines 515, 522, 527, 581, 587, 644
LoopSleep ==
    /\ pc = "sleep"
    /\ cooldown' = Min(cooldown + sleep_for, config.cooldown_seconds)
    \* line 147 reads the age of the last entry only while the history
    \* holds fewer than 5 entries, and the history never shrinks
    /\ entry_age' = IF Len(price_history) < 5
                      THEN Min(entry_age + sleep_for, MidAgeLimit + 1)
                      ELSE entry_age
    /\ pc' = "top"
    \* the next iteration assigns symbol, current_price and signal before
    \* it reads them: their old values are dropped here
    /\ symbol' = "None" /\ loop_price' = 0 /\ signal' = "None"
    /\ sleep_for' = 0
    /\ fill_age' = Min(fill_age + sleep_for, config.cooldown_seconds)
    /\ UNCHANGED << current_price, bid, ask, price_history,
                    botOrderVars, botStatVars,
                    highest_price_in_trade,
                    in_position, current_direction, current_strike,
                    entry_price, stop_loss, profit_target,
                    symbol_index, config, option_chains, ticks, placed, event,
                    harnessVars >>

Next == Tick \/ OrderEvent \/ LoopTop \/ LoopClassify \/ LoopAct \/ LoopSleep

Spec == Init /\ [][Next]_vars

\* A session whose loss limit can be met exactly: 10% of 250 is 25, the loss
\* of one contract bought at 100 and sold at 95; two trades a day.
LossConfig ==
    [BaseConfig EXCEPT !.max_trades_per_day = 2, !.account_balance = 250]

InitLoss ==
    /\ InitBot /\ InitLoop
    /\ config = LossConfig
    /\ option_chains = NoChains
    /\ ticks = 0
    /\ placed = << >>
    /\ fill_age = config.cooldown_seconds
    /\ event = NoEvent
    /\ calc_in = [entry |-> 0, sm |-> 0, tm |-> 0] /\ calc_out = << >>
    /\ class_in = << >> /\ class_out = << >>
    /\ IdleTick /\ IdleTrail /\ IdleStrike /\ IdleIds

SpecLoss == InitLoss /\ [][Next]_vars

\* A session of two trades a day on a rising market whose feed pushes 150,
\* then 120, then 140.
FeedScript == << 150, 120, 140 >>

ScriptedTick ==
    /\ ticks < Len(FeedScript)
    /\ TickPrice(4, FeedScript[ticks + 1])
    /\ ticks' = ticks + 1
    /\ UNCHANGED << botOrderVars, botStatVars, highest_price_in_trade,
                    loopVars, config, option_chains, placed, fill_age, event, harnessVars >>

InitScript ==
    /\ InitLoss
    /\ price_history = Rising

NextScript ==
    ScriptedTick \/ OrderEvent \/ LoopTop \/ LoopClassify \/ LoopAct
      \/ LoopSleep

SpecScript == InitScript /\ [][NextScript]_vars

\* The same session, with the option chain of the symbol arriving while the
\* loop runs (after the wait of lines 728-741 has timed out): the gateway
\* reports, for the expiry the loop trades, no strikes or two strikes.
ChainSnapshots == { {}, {100, 125} }

\* securityDefinitionOptionParameter, lines 95-116
ChainEvent ==
    /\ \E i \in 1..Len(config.symbols) : \E strikes \in ChainSnapshots :
          option_chains' =
             [s \in DOMAIN option_chains \cup {config.symbols[i]} |->
                IF s = config.symbols[i] THEN Sorted(strikes)
                ELSE option_chains[s]]
    /\ UNCHANGED << botPriceVars, botOrderVars, botStatVars,
                    highest_price_in_trade, loopVars, config, ticks, placed,
                    fill_age, event, harnessVars >>

InitChain == InitScript

NextChain ==
    ScriptedTick \/ OrderEvent \/ ChainEvent \/ LoopTop \/ LoopClassify
      \/ LoopAct \/ LoopSleep

SpecChain == InitChain /\ [][NextChain]_vars

\* A session of one trade a day on the scripted prices, followed for four
\* orders.
InitBurst ==
    /\ InitBot /\ InitLoop
    /\ price_history = Rising
    /\ config = BurstConfig
    /\ option_chains = NoChains
    /\ ticks = 0
    /\ placed = << >>
    /\ fill_age = config.cooldown_seconds
    /\ event = NoEvent
    /\ calc_in = [entry |-> 0, sm |-> 0, tm |-> 0] /\ calc_out = << >>
    /\ class_in = << >> /\ class_out = << >>
    /\ IdleTick /\ IdleTrail /\ IdleStrike /\ IdleIds

SpecBurst == InitBurst /\ [][NextScript]_vars

\* The same session to its end: the connection to the gateway may be lost
\* (the gateway then calls error, and no tick or order status arrives any
\* more), and the user may interrupt the loop (KeyboardInterrupt), after
\* which main disconnects and returns.
Connected == pc # "exited" /\ event.status # "ConnectionLost"

GatewayEvent == Connected /\ (ScriptedTick \/ OrderEvent)

\* error, lines 78-80: the error is logged
ConnectionLost ==
    /\ Connected
    /\ event' = [orderId |-> 0 - 1, status |-> "ConnectionLost"]
    /\ UNCHANGED << botPriceVars, botOrderVars, botStatVars,
                    highest_price_in_trade, loopVars, config, option_chains,
                    ticks, placed, fill_age, harnessVars >>

\* lines 646-648: except KeyboardInterrupt: break
Interrupt ==
    /\ pc \notin {"stopped", "exited"}
    /\ pc' = "stopped"
    /\ UNCHANGED << botPriceVars, botOrderVars, botStatVars,
                    highest_price_in_trade,
                    in_position, current_direction, current_strike,
                    entry_price, stop_loss, profit_target,
                    cooldown, symbol_index, symbol, loop_price, signal,
                    sleep_for, config, option_chains, ticks, placed,
                    fill_age, event, harnessVars >>

\* main, lines 762-766: finally: bot.disconnect()
Disconnect ==
    /\ pc = "stopped"
    /\ pc' = "exited"
    /\ UNCHANGED << botPriceVars, botOrderVars, botStatVars,
                    highest_price_in_trade,
                    in_position, current_direction, current_strike,
                    entry_price, stop_loss, profit_target,
                    cooldown, symbol_index, symbol, loop_price, signal,
                    sleep_for, config, option_chains, ticks, placed,
                    fill_age, event, harnessVars >>

InitSession == InitScript

NextSession ==
    GatewayEvent \/ ConnectionLost \/ Interrupt \/ Disconnect
      \/ LoopTop \/ LoopClassify \/ LoopAct \/ LoopSleep

SpecSession == InitSession /\ [][NextSession]_vars

\* A session that trades two symbols, with a cooldown of one second, started
\* on a rising market.
RotateConfig ==
    [BaseConfig EXCEPT !.symbols = << "MES", "MNQ" >>, !.cooldown_seconds = 1]

InitRotate ==
    /\ InitBot /\ InitLoop
    /\ price_history = Rising
    /\ config = RotateConfig
    /\ option_chains = NoChains
    /\ ticks = 0
    /\ placed = << >>
    /\ fill_age = config.cooldown_seconds
    /\ event = NoEvent
    /\ calc_in = [entry |-> 0, sm |-> 0, tm |-> 0] /\ calc_out = << >>
    /\ class_in = << >> /\ class_out = << >>
    /\ IdleTick /\ IdleTrail /\ IdleStrike /\ IdleIds

SpecRotate == InitRotate /\ [][Next]_vars

-----------------------------------------------------------------------------
(* The stop/target calculator on its own: calculate_stops applied to inputs *)
(* drawn from bounded sets.                                                 *)

MaxCalcEntry == 8
CalcMultipliers == {5, 10, 15, 20, 100, 110}      \* 0.5 .. 11.0, in tenths

InitCalc ==
    /\ InitBot /\ InitLoop
    /\ config = BaseConfig
    /\ option_chains = NoChains
    /\ ticks = 0
    /\ placed = << >>
    /\ fill_age = config.cooldown_seconds
    /\ event = NoEvent
    /\ class_in = << >> /\ class_out = << >>
    /\ IdleTick /\ IdleTrail /\ IdleStrike /\ IdleIds
    /\ calc_in \in [ entry : 1..MaxCalcEntry, sm : CalcMultipliers,
                     tm : CalcMultipliers ]
    /\ calc_out = << >>

ApplyCalc ==
    /\ calc_out = << >>
    /\ calc_out' = << CalculateStops(calc_in.entry, calc_in.sm, calc_in.tm) >>
    /\ UNCHANGED << botPriceVars, botOrderVars, botStatVars,
                    highest_price_in_trade, loopVars, config, option_chains, ticks, placed,
                    fill_age, event, classVars, tick_in, trailVars, strikeVars, idVars,
                    calc_in >>

NextCalc == ApplyCalc

SpecCalc == InitCalc /\ [][NextCalc]_vars

-----------------------------------------------------------------------------
(* The order tracker on its own: orders are submitted through                *)
(* place_scalp_order and close_position in any order, and the gateway        *)
(* reports statuses of any order id at any price; every callback is logged   *)
(* (line 170), whether its id is known or not.                               *)

FillPrices == {95, 150}

InitOrders ==
    /\ InitBot /\ InitLoop
    /\ config = BaseConfig
    /\ option_chains = NoChains
    /\ ticks = 0
    /\ placed = << >>
    /\ fill_age = config.cooldown_seconds
    /\ event = NoEvent
    /\ calc_in = [entry |-> 0, sm |-> 0, tm |-> 0] /\ calc_out = << >>
    /\ class_in = << >> /\ class_out = << >>
    /\ IdleTick /\ IdleTrail /\ IdleStrike /\ IdleIds

SubmitOrder ==
    /\ \E action \in {"BUY", "SELL"} :
         PlaceOrder(action, "MES", 100, "CALL", "", 0, 0, 0)
    /\ UNCHANGED << botPriceVars, filled_orders, botStatVars,
                    highest_price_in_trade, loopVars, config, option_chains, ticks,
                    fill_age, event, harnessVars >>

StatusEvent ==
    \E orderId \in FirstOrderId..(FirstOrderId + MaxOrders) :
      \E status \in Statuses :
        \E price \in FillPrices :
          /\ OrderStatus(orderId, status,
                         IF status = "Filled" THEN price ELSE 0)
          /\ fill_age' = IF SellFilled(orderId, status) THEN 0 ELSE fill_age
          /\ event' = [orderId |-> orderId, status |-> status]

NextOrders == SubmitOrder \/ StatusEvent

SpecOrders == InitOrders /\ [][NextOrders]_vars

-----------------------------------------------------------------------------
(* detect_momentum on its own, applied to price windows drawn from a        *)
(* bounded family: length n, first price, and three slopes: the step inside *)
(* the last 5 points, the step inside the 5 points before them, and the     *)
(* step elsewhere; and a window whose prior-5 and recent-5 rates of change  *)
(* are -0.15 and +0.25.                                                     *)

MaxWindow == 22
WindowSteps == {-3, -1, 0, 1, 3}
WindowFirsts == {2000, 20000}

RECURSIVE WindowPrice(_, _, _, _, _, _)
WindowPrice(i, n, first, a, b, c) ==
    IF i = 1 THEN first
    ELSE WindowPrice(i - 1, n, first, a, b, c)
           + (IF i > n - 4 THEN c
              ELSE IF i > n - 9 /\ i <= n - 5 THEN b
              ELSE a)

Window(n, first, a, b, c) ==
    [i \in 1..n |-> WindowPrice(i, n, first, a, b, c)]

ExampleWindow ==
    << 2000, 2001, 2002, 2003, 2004, 2005, 2006, 2007, 2008, 2009,
       2000, 1999, 1999, 1998, 1997, 2000, 2001, 2002, 2004, 2005 >>

Windows ==
    {ExampleWindow} \cup
    { Window(n, first, a, b, c) :
        n \in 0..MaxWindow, first \in WindowFirsts,
        a \in WindowSteps, b \in WindowSteps, c \in WindowSteps }

InitClassify ==
    /\ InitBot /\ InitLoop
    /\ config = BaseConfig
    /\ option_chains = NoChains
    /\ ticks = 0
    /\ placed = << >>
    /\ fill_age = config.cooldown_seconds
    /\ event = NoEvent
    /\ calc_in = [entry |-> 0, sm |-> 0, tm |-> 0] /\ calc_out = << >>
    /\ class_in \in Windows
    /\ class_out = << >>
    /\ IdleTick /\ IdleTrail /\ IdleStrike /\ IdleIds

ApplyClassify ==
    /\ class_out = << >>
    /\ class_out' = << DetectMomentum(class_in, Period) >>
    /\ UNCHANGED << botPriceVars, botOrderVars, botStatVars,
                    highest_price_in_trade, loopVars, config, option_chains, ticks, placed,
                    fill_age, event, calcVars, tick_in, trailVars, strikeVars, idVars,
                    class_in >>

NextClassify == ApplyClassify

SpecClassify == InitClassify /\ [][NextClassify]_vars

-----------------------------------------------------------------------------
(* update_trailing_stop on its own, as scalping_loop calls it (trailing_pct *)
(* 0.08), applied to a recorded highest price, a current price and an entry *)
(* price drawn from bounded sets.                                           *)

MaxTrailPrice == 15

InitTrail ==
    /\ InitBot /\ InitLoop
    /\ config = BaseConfig
    /\ option_chains = NoChains
    /\ ticks = 0
    /\ placed = << >>
    /\ fill_age = config.cooldown_seconds
    /\ event = NoEvent
    /\ calc_in = [entry |-> 0, sm |-> 0, tm |-> 0] /\ calc_out = << >>
    /\ class_in = << >> /\ class_out = << >>
    /\ IdleTick /\ IdleStrike /\ IdleIds
    /\ trail_in \in [ highest : 0..MaxTrailPrice, price : 1..MaxTrailPrice,
                      entry : 1..MaxTrailPrice ]
    /\ trail_out = << >>

ApplyTrail ==
    /\ trail_out = << >>
    /\ trail_out' = << UpdateTrailingStop(trail_in.highest, trail_in.price,
                                          trail_in.entry) >>
    /\ UNCHANGED << botPriceVars, botOrderVars, botStatVars,
                    highest_price_in_trade, loopVars, config, option_chains, ticks, placed,
                    fill_age, event, calcVars, classVars, tick_in, strikeVars, idVars,
                    trail_in >>

NextTrail == ApplyTrail

SpecTrail == InitTrail /\ [][NextTrail]_vars

-----------------------------------------------------------------------------
(* find_scalping_strike on its own.  The chain table holds nothing, or, for *)
(* MES, the sorted list of any of the strikes of a small grid (the empty    *)
(* list included); the function is asked for a strike for MES or MNQ, CALL  *)
(* or PUT, at a price within, below or above the grid.                      *)

MaxStrikePrice == 30
StrikeGrid == {5, 10, 20}

InitStrike ==
    /\ InitBot /\ InitLoop
    /\ price_history = Rising
    /\ config = BaseConfig
    /\ ticks = 0
    /\ placed = << >>
    /\ fill_age = config.cooldown_seconds
    /\ event = NoEvent
    /\ calc_in = [entry |-> 0, sm |-> 0, tm |-> 0] /\ calc_out = << >>
    /\ class_in = << >> /\ class_out = << >>
    /\ IdleTick /\ IdleTrail /\ IdleIds
    /\ option_chains \in
          {NoChains} \cup
          { [s \in {"MES"} |-> Sorted(S)] : S \in SUBSET StrikeGrid }
    /\ strike_in \in [ symbol : {"MES", "MNQ"}, price : 1..MaxStrikePrice,
                       direction : {"CALL", "PUT"} ]
    /\ strike_out = << >>

ApplyStrike ==
    /\ strike_out = << >>
    /\ strike_out' = << FindScalpingStrike(strike_in.symbol, strike_in.price,
                                           strike_in.direction) >>
    /\ UNCHANGED << botPriceVars, botOrderVars, botStatVars,
                    highest_price_in_trade, loopVars, config, option_chains,
                    ticks, placed, fill_age, event, calcVars, classVars,
                    tick_in, trailVars, idVars, strike_in >>

NextStrike == ApplyStrike

SpecStrike == InitStrike /\ [][NextStrike]_vars

-----------------------------------------------------------------------------
(* client_id_manager.py: several scripts call get_next_available_id at the  *)
(* same time and, when they exit, release_client_id with the identifier     *)
(* they got.  Each caller is a process of its own; a step is one file       *)
(* system call, or the work between two of them.  The lock file may be      *)
(* there at the start, left by a script that was killed while holding it:   *)
(* the case the timeout of the wait exists for.  Time is counted in sleeps  *)
(* of the wait loop; MaxWait stands for max_wait.  A read or a write of the *)
(* identifier file is one step.                                             *)

NumCallers == 2
MaxWait == 1
FirstCounter == 10
RESERVED_IDS == << 1, 2, 3 >>

Callers == 1..NumCallers

NoData == [counter |-> 0, in_use |-> << >>]

\* data = {"in_use": list(RESERVED_IDS.keys()), "counter": 10}
DefaultData == [counter |-> FirstCounter, in_use |-> RESERVED_IDS]

\* data["in_use"].remove(client_id): the first occurrence goes.
RECURSIVE Remove(_, _)
Remove(list, x) ==
    IF list = << >> THEN << >>
    ELSE IF Head(list) = x THEN Tail(list)
    ELSE << Head(list) >> \o Remove(Tail(list), x)

\* static_map, lines 97-115
static_map ==
    ("futures_bot_live.py" :> 10) @@ ("momentum_auto_switching_live.py" :> 11)
    @@ ("theta_auto_switching_live.py" :> 12)
    @@ ("volatility_auto_switching_live.py" :> 13)
    @@ ("execute_iron_condor_demo.py" :> 14) @@ ("run_iron_butterfly.py" :> 15)
    @@ ("run_credit_spread.py" :> 16) @@ ("run_butterfly.py" :> 17)
    @@ ("run_futures_ema.py" :> 18) @@ ("run_defense_auto.py" :> 19)
    @@ ("close_all_positions.py" :> 20) @@ ("run_iron_condor_auto.py" :> 21)
    @@ ("show_risk_metrics.py" :> 22)
    @@ ("analyze_market_conditions.py" :> 23)
    @@ ("select_best_strategy_simple.py" :> 24)
    @@ ("show_position_pnl_chart.py" :> 25)
    @@ ("monitor_account_clean.py" :> 26)

\* A script name is a path, the sequence of its components;
\* os.path.basename (line 118) gives the last one.
Basename(script_name) == script_name[Len(script_name)]

\* How a script gets its identifier: << >> stands for a direct call of
\* get_next_available_id, a path for get_static_id(path).
ScriptNames ==
    { << >>, << "bots", "futures_bot_live.py" >>, << "my_script.py" >> }

\* Line 119: static_map.get(filename, get_next_available_id()), the second
\* argument having been evaluated (allocated) before get is called.
GetStaticId(script_name, allocated) ==
    IF Basename(script_name) \in DOMAIN static_map
      THEN static_map[Basename(script_name)]
      ELSE allocated

InitIds ==
    /\ InitBot /\ InitLoop
    /\ price_history = Rising
    /\ config = BaseConfig
    /\ option_chains = NoChains
    /\ ticks = 0
    /\ placed = << >>
    /\ fill_age = config.cooldown_seconds
    /\ event = NoEvent
    /\ calc_in = [entry |-> 0, sm |-> 0, tm |-> 0] /\ calc_out = << >>
    /\ class_in = << >> /\ class_out = << >>
    /\ IdleTick /\ IdleTrail /\ IdleStrike
    /\ lock_file \in {0, 1}
    /\ touches = lock_file
    /\ id_file = << >>
    /\ procs \in [Callers ->
                  [op : {"get"}, pc : {"wait"}, waited : {0}, first : {0},
                   forced : {0}, data : {NoData}, client_id : {0},
                   result : {0}, script : ScriptNames, given : {0}]]

IdFrame ==
    UNCHANGED << botPriceVars, botOrderVars, botStatVars,
                 highest_price_in_trade, loopVars, config, option_chains, ticks, placed,
                 fill_age, event, calcVars, classVars, tick_in, trailVars,
                 strikeVars >>

\* Lines 25-29 and 65-69: one turn of the wait loop.  No lock: go on to
\* create one.  A lock, and the wait has lasted more than max_wait: go and
\* remove it.  A lock otherwise: sleep.  `first` keeps which lock file the
\* caller found at its first look.
Poll(p) ==
    /\ procs[p].pc = "wait"
    /\ procs' = [procs EXCEPT ![p] =
          IF lock_file = 0 THEN [@ EXCEPT !.pc = "touch"]
          ELSE IF @.waited > MaxWait
               THEN [@ EXCEPT !.pc = "force",
                              !.first = IF @ = 0 THEN lock_file ELSE @]
               ELSE [@ EXCEPT !.waited = @ + 1,
                              !.first = IF @ = 0 THEN lock_file ELSE @]]
    /\ UNCHANGED << lock_file, touches, id_file >>
    /\ IdFrame

\* Lines 27 and 67: LOCK_FILE.unlink(missing_ok=True) removes whatever lock
\* file is there now.  `forced` keeps which one it removed.
ForceUnlink(p) ==
    /\ procs[p].pc = "force"
    /\ lock_file' = 0
    /\ procs' = [procs EXCEPT ![p].pc = "touch", ![p].forced = lock_file]
    /\ UNCHANGED << touches, id_file >>
    /\ IdFrame

\* Lines 33 and 73: LOCK_FILE.touch() creates the file, or leaves the one
\* that is there.  The wait is over: its notes are cleared.
Touch(p) ==
    /\ procs[p].pc = "touch"
    /\ IF lock_file = 0
       THEN touches' = touches + 1 /\ lock_file' = touches + 1
       ELSE UNCHANGED << lock_file, touches >>
    /\ procs' = [procs EXCEPT ![p] =
          [@ EXCEPT !.pc = "load", !.waited = 0, !.first = 0, !.forced = 0]]
    /\ UNCHANGED id_file
    /\ IdFrame

\* Lines 36-45: read the file or take the default, take the counter as the
\* identifier, count on, note the identifier as in use.
\* Lines 76-82: read the file if there is one and drop the identifier;
\* with no file there is nothing to save.
Load(p) ==
    /\ procs[p].pc = "load"
    /\ LET data == IF id_file = << >> THEN DefaultData ELSE id_file[1]
       IN  procs' = [procs EXCEPT ![p] =
              IF @.op = "get"
              THEN [@ EXCEPT !.pc = "save",
                             !.client_id = data.counter,
                             !.data = [counter |-> data.counter + 1,
                                       in_use  |-> Append(data.in_use,
                                                          data.counter)]]
              ELSE IF id_file = << >>
                   THEN [@ EXCEPT !.pc = "unlock"]
                   ELSE [@ EXCEPT !.pc = "save",
                                  !.data = [data EXCEPT !.in_use =
                                              Remove(@, procs[p].given)]]]
    /\ UNCHANGED << lock_file, touches, id_file >>
    /\ IdFrame

\* Lines 48-49 and 85-86: write the data back.
Save(p) ==
    /\ procs[p].pc = "save"
    /\ id_file' = << procs[p].data >>
    /\ procs' = [procs EXCEPT ![p].pc = "unlock"]
    /\ UNCHANGED << lock_file, touches >>
    /\ IdFrame

\* Lines 51-55 and 88-90: the finally clause removes the lock file that is
\* there, and the call returns; a call made for get_static_id returns into
\* line 119.
Unlock(p) ==
    /\ procs[p].pc = "unlock"
    /\ lock_file' = 0
    /\ procs' = [procs EXCEPT ![p] =
          IF @.op = "get"
          THEN [@ EXCEPT !.pc = "done", !.result = procs[p].client_id,
                         !.given = IF procs[p].script = << >>
                                     THEN procs[p].client_id
                                     ELSE GetStaticId(procs[p].script,
                                                      procs[p].client_id),
                         !.data = NoData]
          ELSE [@ EXCEPT !.pc = "exit", !.data = NoData]]
    /\ UNCHANGED << touches, id_file >>
    /\ IdFrame

\* Lines 57-64: the script exits and calls release_client_id with the
\* identifier it was given (never a reserved one: they are below the
\* counter's start).
StartRelease(p) ==
    /\ procs[p].pc = "done"
    /\ procs' = [procs EXCEPT ![p] =
          [@ EXCEPT !.op = "release", !.pc = "wait"]]
    /\ UNCHANGED << lock_file, touches, id_file >>
    /\ IdFrame

NextIds ==
    \E p \in Callers :
       \/ Poll(p)
       \/ ForceUnlink(p)
       \/ Touch(p)
       \/ Load(p)
       \/ Save(p)
       \/ Unlock(p)
       \/ StartRelease(p)

SpecIds == InitIds /\ [][NextIds]_vars

-----------------------------------------------------------------------------
(* tickPrice on its own: the feed pushes ticks of every type the handler    *)
(* tells apart (1 bid, 2 ask, 4 last, 9 close, 6 as one of the others) at   *)
(* bounded prices, 0 being a price the handler drops; seconds pass between  *)
(* ticks.  The history starts empty (with no price known), or as built by   *)
(* last ticks: 4, 5, 99 or 100 entries, all different.  The prices are even *)
(* so that the mid of a bid and an ask is a whole number.                   *)

MaxFeed == 3
FeedTypes == {1, 2, 4, 6, 9}
FeedPrices == {0, 98, 100, 102}
Ramp(n) == [i \in 1..n |-> 200 + i]
FeedStartHistories ==
    { << >>, Ramp(4), Ramp(5), Ramp(HistoryMaxLen - 1), Ramp(HistoryMaxLen) }

InitTicks ==
    /\ price_history \in FeedStartHistories
    /\ current_price = IF price_history = << >> THEN 0
                       ELSE price_history[Len(price_history)]
    /\ bid = 0 /\ ask = 0 /\ entry_age = 0
    /\ active_orders = NoOrders /\ filled_orders = NoOrders
    /\ nextOrderId = FirstOrderId
    /\ trades_today = 0 /\ wins = 0 /\ losses = 0
    /\ total_pnl = 0 /\ daily_pnl = 0
    /\ bot_entry_price = 0 /\ highest_price_in_trade = 0
    /\ InitLoop
    /\ config = BaseConfig
    /\ option_chains = NoChains
    /\ ticks = 0
    /\ placed = << >>
    /\ fill_age = config.cooldown_seconds
    /\ event = NoEvent
    /\ calc_in = [entry |-> 0, sm |-> 0, tm |-> 0] /\ calc_out = << >>
    /\ class_in = << >> /\ class_out = << >>
    /\ IdleTick /\ IdleTrail /\ IdleStrike /\ IdleIds

FeedTick ==
    /\ ticks < MaxFeed
    /\ \E tickType \in FeedTypes : \E price \in FeedPrices :
         /\ TickPrice(tickType, price)
         /\ tick_in' = [tickType |-> tickType, price |-> price]
    /\ ticks' = ticks + 1
    /\ UNCHANGED << botOrderVars, botStatVars, highest_price_in_trade,
                    loopVars, config, option_chains, placed, fill_age, event,
                    calcVars, classVars, trailVars, strikeVars, idVars >>

\* a second passes: datetime.now() of line 150 moves on
SecondPasses ==
    /\ entry_age <= MidAgeLimit
    /\ entry_age' = entry_age + 1
    /\ UNCHANGED << current_price, bid, ask, price_history,
                    botOrderVars, botStatVars, highest_price_in_trade,
                    loopVars, config, option_chains, ticks, placed, fill_age, event,
                    harnessVars >>

NextTicks == FeedTick \/ SecondPasses

SpecTicks == InitTicks /\ [][NextTicks]_vars

-----------------------------------------------------------------------------
(* Observations used by the properties *)

\* The position state machine of the specification, read off the recorded
\* status of the orders of position k (its Buy order and its Sell orders).
BuyIdOf(k) ==
    placed[CHOOSE i \in Buys(placed) : placed[i].pos = k].orderId
SellIdsOf(k) ==
    {placed[i].orderId : i \in {j \in Sells(placed) : placed[j].pos = k}}
Positions == {placed[i].pos : i \in Buys(placed)}

PositionState(k) ==
    LET b == RecordedStatus(BuyIdOf(k))
    IN  IF b \in {"Rejected", "Cancelled"} THEN "Flat"
        ELSE IF b = "Submitted" THEN "Entering"
        ELSE IF \E id \in SellIdsOf(k) : RecordedStatus(id) = "Filled"
          THEN "Flat"
        ELSE IF \E id \in SellIdsOf(k) : RecordedStatus(id) = "Submitted"
          THEN "Exiting"
        ELSE "InPosition"

\* The position an order belongs to, and the orders this step moves to
\* filled_orders.
PosOf(id) ==
    placed[CHOOSE i \in 1..Len(placed) : placed[i].orderId = id].pos
NewlyFilled == DOMAIN filled_orders' \ DOMAIN filled_orders
SellFillStep ==
    \E id \in NewlyFilled : filled_orders'[id].action = "SELL"
Known == DOMAIN active_orders \cup DOMAIN filled_orders
Terminal == {"Filled", "Cancelled", "Rejected"}

\* The last 20 points of the classified window, its 5 most recent points
\* and the 5 points before them.
Last20 == SubSeq(class_in, Len(class_in) - 19, Len(class_in))
Recent5 == SubSeq(class_in, Len(class_in) - 4, Len(class_in))
Prior5 == SubSeq(class_in, Len(class_in) - 9, Len(class_in) - 5)
Classified == class_out # << >>

\* The prices observed since the held position was entered: the history
\* (which only grows here) from the first entry that holds the entry price
\* on; more than that if the entry price was observed earlier too.
EntryIndex ==
    CHOOSE k \in 1..Len(price_history) :
       /\ price_history[k] = entry_price
       /\ \A m \in 1..(k-1) : price_history[m] # entry_price
SinceEntry == {price_history[i] : i \in EntryIndex..Len(price_history)}

\* The step is a LoopAct step that placed an order / placed none.
Placed1 == Len(placed') = Len(placed) + 1
LastPlaced == placed'[Len(placed')]
ActStep == pc = "act" /\ pc' # "act"

-----------------------------------------------------------------------------
(* Properties *)

\* C1: at most one Position is in a non-Flat state (Entering, InPosition or
\* Exiting) in every reachable state.  The loop clears in_position when it
\* submits the Sell, so it enters again while that Sell is unresolved.
C1_AtMostOneNonFlat ==
    Cardinality({k \in Positions : PositionState(k) # "Flat"}) <= 1

\* C2: a cycle that begins with an open position whose price has reached the
\* profit target or the stop is not skipped by a failing risk gate: the loop
\* goes on to evaluate the exit rules instead of sleeping.
C2_ExitEvaluatedDespiteGate ==
    [][ ( /\ pc = "top" /\ in_position
          /\ \/ current_price * Scale >= profit_target
             \/ current_price * Scale <= stop_loss )
        => pc' # "sleep" ]_vars

\* C3: a cycle whose gate check finds trades_today equal to the daily maximum
\* ends there: the loop sleeps and places no order; and orders are placed
\* only by the step that follows a passed gate and a classification.
C3_NoEntryAtTradeLimit ==
    [][ /\ ( pc = "top" /\ pc' # "top"
             /\ trades_today = config.max_trades_per_day )
           => ( pc' = "sleep" /\ sleep_for' = 60 /\ placed' = placed
                /\ active_orders' = active_orders )
        /\ (placed' # placed) => (ActStep /\ Placed1) ]_vars

C3_Witness ==
    /\ pc = "sleep" /\ sleep_for = 60
    /\ trades_today = config.max_trades_per_day

\* C4: while the loop holds a position its stop never decreases from one
\* step to the next.
C4_StopNeverDecreases ==
    [][ (in_position /\ in_position') => stop_loss' >= stop_loss ]_vars

\* the trailing stop has replaced the stop computed at entry
C4_Witness ==
    /\ in_position
    /\ stop_loss > CalculateStops(entry_price, config.stop_loss_multiplier,
                                  config.profit_target_multiplier).stop_loss

\* C5 as stated: entry 100 with multipliers 1 and 2 gives stop 90, target 125
\* and activation 115 (and price 130 is then at the target).
C5_Target125 ==
    \A i \in Buys(placed) :
       placed[i].entry = 100 =>
          /\ placed[i].stop = 90 * Scale
          /\ placed[i].target = 125 * Scale
          /\ CalculateStops(100, 10, 20).trailing_stop_activation = 115 * Scale

\* C5 amended: entry 100 with multipliers 1 and 2 gives stop 90, target 150
\* and activation 115; a position entered at 100 that is fed a price of 150
\* is closed with reason "Profit target", one fed 130 is not.
C5_Target150 ==
    /\ [] ( \A i \in Buys(placed) :
              placed[i].entry = 100 =>
                /\ placed[i].stop = 90 * Scale
                /\ placed[i].target = 150 * Scale
                /\ CalculateStops(100, config.stop_loss_multiplier,
                                  config.profit_target_multiplier)
                       .trailing_stop_activation = 115 * Scale )
    /\ [][ (ActStep /\ in_position /\ entry_price = 100)
           => /\ loop_price = 150
                   => (Placed1 /\ LastPlaced.reason = "Profit target")
              /\ loop_price = 130
                   => ~ (Placed1 /\ LastPlaced.reason = "Profit target") ]_vars

C5_Witness ==
    \E j \in Sells(placed) :
       /\ placed[j].entry = 100 /\ placed[j].price = 150
       /\ placed[j].reason = "Profit target"

\* C6: for every entry price and multipliers the calculator returns
\* stop = max(0.05, entry - entry*0.10*sm), target = entry + entry*0.25*tm,
\* activation = entry*1.15, and the stop is at least 0.05.  (Both sides in
\* 1/10000 dollar; sm and tm are in tenths.)
C6_CalculatorFormula ==
    calc_out # << >> =>
       LET e == calc_in.entry
           r == calc_out[1]
       IN  /\ 10 * r.stop_loss = Max(500, 10000 * e - 100 * e * calc_in.sm)
           /\ 10 * r.profit_target = 10000 * e + 250 * e * calc_in.tm
           /\ 10 * r.trailing_stop_activation = 11500 * e
           /\ 10 * r.stop_loss >= 500

\* the floor decides the stop
C6_Witness ==
    /\ calc_out # << >>
    /\ calc_in.entry * Scale - calc_in.entry * 10 * calc_in.sm < MinStopLoss
    /\ calc_out[1].stop_loss = MinStopLoss

\* C7: the exit rules of a held position are applied in priority order, the
\* first match deciding: target, then stop (the stop after the trailing
\* update of the cycle), then, if reversals are enabled, an opposing signal;
\* when none matches no order is placed.
C7_ExitPriority ==
    [][ (ActStep /\ in_position) =>
          LET p == loop_price * Scale
              opposing ==
                \/ signal \in {"BEARISH", "REVERSAL_DOWN"}
                     /\ current_direction = "CALL"
                \/ signal \in {"BULLISH", "REVERSAL_UP"}
                     /\ current_direction = "PUT"
          IN  IF p >= profit_target
                THEN /\ Placed1 /\ LastPlaced.action = "SELL"
                     /\ LastPlaced.reason = "Profit target"
              ELSE IF p <= stop_loss'
                THEN /\ Placed1 /\ LastPlaced.action = "SELL"
                     /\ LastPlaced.reason = "Stop loss"
              ELSE IF config.allow_reversals /\ opposing
                THEN /\ Placed1 /\ LastPlaced.action = "SELL"
                     /\ LastPlaced.reason \in {"Reversal DOWN", "Reversal UP"}
              ELSE placed' = placed /\ in_position' ]_vars

\* a stop exit decided by a trailed stop although the signal opposes too
C7_Witness ==
    \E j \in Sells(placed) :
       /\ placed[j].reason = "Stop loss"
       /\ placed[j].stop > 90 * Scale /\ placed[j].entry = 100
       /\ placed[j].signal = "REVERSAL_DOWN" /\ placed[j].direction = "CALL"

\* C8: holding a Call with reversals enabled, a cycle whose signal is
\* REVERSAL_DOWN and whose price is strictly between the stop and the target
\* places a Sell with reason reversal, and no position ever gets a second
\* Sell.
C8_OneReversalSell ==
    /\ [][ ( /\ ActStep /\ in_position /\ current_direction = "CALL"
             /\ config.allow_reversals /\ signal = "REVERSAL_DOWN"
             /\ stop_loss' < loop_price * Scale
             /\ loop_price * Scale < profit_target )
           => /\ Placed1 /\ LastPlaced.action = "SELL"
              /\ LastPlaced.reason = "Reversal DOWN"
              /\ ~ in_position' ]_vars
    /\ [] ( \A i, j \in Sells(placed) :
              placed[i].pos = placed[j].pos => i = j )

C8_Witness ==
    \E j \in Sells(placed) :
       /\ placed[j].reason = "Reversal DOWN"
       /\ placed[j].signal = "REVERSAL_DOWN" /\ placed[j].direction = "CALL"
       /\ pc = "top" /\ ~ in_position

\* C9: no Sell is placed for a position whose Buy order has not been Filled.
C9_SellOnlyAfterBuyFilled ==
    \A j \in Sells(placed) : placed[j].buy_status = "Filled"

\* C10: a position whose Buy order was Rejected or Cancelled is Flat: no Sell
\* is placed for it.
C10_NoSellAfterRejectedBuy ==
    \A j \in Sells(placed) :
       placed[j].buy_status \notin {"Rejected", "Cancelled"}

\* C11: a position whose Buy order was Filled and whose Sell orders were all
\* Rejected or Cancelled is back in position: the loop holds it (in_position
\* is True and it is the latest position), so that the exit is retried.
C11_RejectedSellRetried ==
    \A k \in Positions :
       ( /\ RecordedStatus(BuyIdOf(k)) = "Filled"
         /\ SellIdsOf(k) # {}
         /\ \A id \in SellIdsOf(k) :
               RecordedStatus(id) \in {"Rejected", "Cancelled"} )
       => (in_position /\ k = Cardinality(Buys(placed)))

\* C12: the recorded status of an order that has reached a terminal status
\* (Filled, Cancelled, Rejected) is never changed by a later step.
C12_StatusMonotonic ==
    [][ \A id \in Known :
          RecordedStatus(id) \in Terminal
            => RecordedStatus(id)' = RecordedStatus(id) ]_vars

\* C13: a status callback whose order id is in neither active_orders nor
\* filled_orders changes no order record, no counter and nothing the loop
\* keeps of its position.
C13_UnknownIdIgnored ==
    [][ (event' # event /\ event'.orderId \notin Known)
        => UNCHANGED << active_orders, filled_orders, nextOrderId, placed,
                        trades_today, wins, losses, total_pnl, daily_pnl,
                        bot_entry_price, highest_price_in_trade,
                        in_position, current_direction, current_strike,
                        entry_price, stop_loss, profit_target, cooldown >>
      ]_vars

\* a "Filled" for an unknown id was received while orders were open, after
\* a trade was counted
C13_Witness ==
    /\ event.status = "Filled" /\ event.orderId \notin Known
    /\ active_orders # NoOrders /\ trades_today > 0

\* C14: when a Sell order is Filled and the Buy order of its position was
\* Filled, total_pnl and daily_pnl grow by (sell fill price - fill price of
\* that Buy) * quantity * 5, and the trade is a win if that is positive and
\* a loss otherwise.
C14_PnlFromOwnBuy ==
    [][ \A id \in NewlyFilled :
          ( /\ filled_orders'[id].action = "SELL"
            /\ BuyIdOf(PosOf(id)) \in DOMAIN filled_orders )
          => LET buy == filled_orders[BuyIdOf(PosOf(id))]
                 pnl == (filled_orders'[id].avgPrice - buy.avgPrice)
                           * filled_orders'[id].quantity * ContractMultiplier
             IN  /\ total_pnl' = total_pnl + pnl
                 /\ daily_pnl' = daily_pnl + pnl
                 /\ wins' = IF pnl > 0 THEN wins + 1 ELSE wins
                 /\ losses' = IF pnl > 0 THEN losses ELSE losses + 1 ]_vars

\* C15: trades_today, wins, losses, total_pnl, daily_pnl and last_trade_time
\* change only in a step that reports a Sell order as Filled.  (The time
\* elapsed since last_trade_time only grows while last_trade_time is kept:
\* it decreases exactly when last_trade_time is rewritten.)
C15_StatsOnlyOnSellFill ==
    [][ ( \/ << trades_today, wins, losses, total_pnl, daily_pnl >>'
               # << trades_today, wins, losses, total_pnl, daily_pnl >>
          \/ cooldown' < cooldown )
        => SellFillStep ]_vars

\* C16: a cycle whose gate check finds daily_pnl equal to or below
\* -(max_daily_loss_pct * account_balance) ends there: the loop sleeps and
\* goes on to no entry.
C16_LossGateBlocksAtLimit ==
    [][ ( /\ pc = "top" /\ pc' # "top"
          /\ daily_pnl * 100
                <= 0 - config.max_daily_loss_pct * config.account_balance )
        => (pc' = "sleep" /\ placed' = placed) ]_vars

\* C17: a Buy order is placed, all earlier orders being Filled, only when at
\* least cooldown_seconds have passed since the last Sell order was reported
\* Filled.
C17_CooldownFromSellFill ==
    [][ (Placed1 /\ LastPlaced.action = "BUY" /\ active_orders = NoOrders)
        => fill_age >= config.cooldown_seconds ]_vars

\* C18: a window of fewer than 20 points classifies NEUTRAL, whatever its
\* prices.
C18_ShortWindowNeutral ==
    (Classified /\ Len(class_in) < 20) => class_out[1] = "NEUTRAL"

\* 19 points rising by 3 each, classified
C18_Witness ==
    /\ Classified /\ Len(class_in) = 19
    /\ \A i \in 2..19 : class_in[i] = class_in[i-1] + 3
    /\ class_out[1] = "NEUTRAL"

\* C19: for a window of at least 20 points, if the rate of change of the
\* prior 5 points is below -0.1 and that of the recent 5 points above 0.2
\* the signal is REVERSAL_UP; if the prior is above 0.1 and the recent below
\* -0.2 it is REVERSAL_DOWN; whatever the full-window trend.
C19_ReversalFirst ==
    (Classified /\ Len(class_in) >= 20) =>
       /\ ( /\ (Prior5[5] - Prior5[1]) * 1000 < 0 - Prior5[1]
            /\ (Recent5[5] - Recent5[1]) * 1000 > 2 * Recent5[1] )
          => class_out[1] = "REVERSAL_UP"
       /\ ( /\ (Prior5[5] - Prior5[1]) * 1000 > Prior5[1]
            /\ (Recent5[5] - Recent5[1]) * 1000 < 0 - 2 * Recent5[1] )
          => class_out[1] = "REVERSAL_DOWN"

\* a REVERSAL_UP window whose full-window roc and up-step score satisfy the
\* Bullish condition
C19_Witness ==
    /\ Classified /\ Len(class_in) >= 20
    /\ class_out[1] = "REVERSAL_UP"
    /\ (Last20[20] - Last20[1]) * 10000 > 15 * Last20[1]
    /\ UpMoves(Last20) * 100 > 55 * 19

\* C20: a strictly increasing 20-point window whose roc exceeds 0.15
\* classifies BULLISH, a strictly decreasing one whose roc is below -0.15
\* classifies BEARISH.
C20_MonotoneTrend ==
    (Classified /\ Len(class_in) >= 20) =>
       /\ ( /\ \A i \in 2..20 : Last20[i] > Last20[i-1]
            /\ (Last20[20] - Last20[1]) * 10000 > 15 * Last20[1] )
          => class_out[1] = "BULLISH"
       /\ ( /\ \A i \in 2..20 : Last20[i] < Last20[i-1]
            /\ (Last20[20] - Last20[1]) * 10000 < 0 - 15 * Last20[1] )
          => class_out[1] = "BEARISH"

\* a strictly decreasing window classified BEARISH whose recent 5 points
\* fall by more than 0.2 percent
C20_Witness ==
    /\ Classified /\ Len(class_in) = 20
    /\ \A i \in 2..20 : class_in[i] < class_in[i-1]
    /\ (Recent5[5] - Recent5[1]) * 1000 < 0 - 2 * Recent5[1]
    /\ class_out[1] = "BEARISH"

\* C21: the price history never holds more than 100 entries, and every step
\* either leaves it alone or appends one entry at its end, dropping exactly
\* the oldest entry when it was full: no other entry is removed or moved.
C21_HistoryFifo ==
    /\ [] (Len(price_history) <= HistoryMaxLen)
    /\ [][ \/ price_history' = price_history
           \/ /\ Len(price_history') >= 1
              /\ SubSeq(price_history', 1, Len(price_history') - 1)
                   = IF Len(price_history) < HistoryMaxLen
                       THEN price_history
                       ELSE Tail(price_history) ]_vars

\* a full history has dropped its two oldest entries for two last ticks
C21_Witness ==
    /\ Len(price_history) = HistoryMaxLen
    /\ price_history[1] = 203
    /\ price_history[HistoryMaxLen - 2] = 300
    /\ price_history[HistoryMaxLen - 1] = 98
    /\ price_history[HistoryMaxLen] = 102

\* C22: the price and the signal a cycle acts on belong to one instant of
\* the feed: there is a point of the history (which only grows here, each
\* entry being the current price when it was appended) whose price is the
\* price of the cycle and up to which the history classifies as the signal
\* of the cycle.
C22_OneSnapshot ==
    pc = "act" =>
       \E k \in 1..Len(price_history) :
          /\ loop_price = price_history[k]
          /\ signal = DetectMomentum(SubSeq(price_history, 1, k), Period)

\* C23: concurrent calls of get_next_available_id never return the same
\* identifier: the identifiers returned so far are pairwise distinct.
C23_DistinctIds ==
    \A p, q \in DOMAIN procs :
       (p # q /\ procs[p].result # 0 /\ procs[q].result # 0)
          => procs[p].result # procs[q].result

\* C24: a caller whose wait timed out removes, if anything, the lock file
\* it has been waiting on since its first look (the one held for longer
\* than the timeout), never a lock file created since; so no two callers
\* remove a lock by force on account of the same stale one.
C24_ForceClearsStaleOnly ==
    [][ \A p \in DOMAIN procs :
          (procs[p].pc = "force" /\ procs'[p].pc = "touch")
             => procs'[p].forced \in {0, procs[p].first} ]_vars

\* C25: the Sell order placed for a position names the symbol, the strike
\* and the direction of the Buy order that opened it.
C25_SellNamesBoughtContract ==
    \A j \in Sells(placed) :
       LET b == placed[CHOOSE i \in Buys(placed) :
                          placed[i].pos = placed[j].pos]
       IN  /\ placed[j].symbol = b.symbol
           /\ placed[j].strike = b.strike
           /\ placed[j].direction = b.direction

\* C26: the step that reports a Sell order as Filled adds one to
\* trades_today and one to exactly one of wins and losses, and no other
\* step changes these counters.
C26_SellFillCountedOnce ==
    [][ /\ SellFillStep
             => /\ trades_today' = trades_today + 1
                /\ wins' + losses' = wins + losses + 1
                /\ wins' >= wins /\ losses' >= losses
        /\ (<< trades_today, wins, losses >>' # << trades_today, wins, losses >>)
             => SellFillStep ]_vars

\* C27: once the Buy order of the held position is Filled, the entry price
\* the loop evaluates the exits with is the fill price of that order, the
\* one the PnL is computed from, and the target is the one calculate_stops
\* gives for it.
C27_StopsFromFillPrice ==
    ( /\ in_position
      /\ LastBuyId(placed) \in DOMAIN filled_orders
      /\ active_orders = NoOrders
      /\ bot_entry_price > 0 )
    => /\ entry_price = bot_entry_price
       /\ profit_target
            = CalculateStops(bot_entry_price, config.stop_loss_multiplier,
                             config.profit_target_multiplier).profit_target

\* C28: when a cycle computes a trailing stop for the held position (its
\* price being above the entry), the highest price it computes it from is a
\* price observed since that position was entered.
C28_HighestSinceEntry ==
    [][ (ActStep /\ in_position /\ loop_price > entry_price)
        => highest_price_in_trade' \in SinceEntry ]_vars

\* C29: update_trailing_stop returns nothing and keeps the recorded highest
\* price unless the price is above the entry; otherwise the highest becomes
\* max(highest, price) and highest * 0.92 is returned exactly when it is
\* above the entry; a returned stop is strictly above the entry.  (Stops in
\* 1/1000 dollar.)
C29_TrailingStop ==
    trail_out # << >> =>
       LET in  == trail_in
           out == trail_out[1]
           h   == IF in.price > in.highest THEN in.price ELSE in.highest
       IN  /\ in.price <= in.entry
                => (~ out.some /\ out.highest = in.highest)
           /\ in.price > in.entry
                => /\ out.highest = h
                   /\ out.some <=> (92 * h > 100 * in.entry)
                   /\ out.some => 100 * out.stop = 92000 * h
           /\ out.some => out.stop > 1000 * in.entry

\* a stop returned on the strength of an earlier high
C29_Witness ==
    /\ trail_out # << >> /\ trail_out[1].some
    /\ trail_in.highest > trail_in.price
    /\ 92 * trail_in.price <= 100 * trail_in.entry

\* C30: a last tick (of a positive price) sets the current price to its
\* price; a tick of any other type leaves a current price that is set as it
\* is, and a bid, ask or close tick sets an unset current price to its price.
C30_PricePriority ==
    [][ (ticks' # ticks) =>
          LET t == tick_in'
          IN  /\ (t.tickType = 4 /\ t.price > 0) => current_price' = t.price
              /\ (t.tickType # 4 /\ current_price # 0)
                    => current_price' = current_price
              /\ (t.tickType \in {1, 2, 9} /\ current_price = 0
                    /\ t.price > 0)
                    => current_price' = t.price ]_vars

\* a close tick of another price has left the current price, set by a bid
\* tick, as it was
C30_Witness ==
    /\ tick_in.tickType = 9 /\ tick_in.price = 102
    /\ current_price = 98 /\ bid = 98 /\ price_history = << >>


\* C31, as stated: a tick (of a positive price) appends to the price history
\* exactly one entry, its price, if it is a last tick; exactly one entry, the
\* mid of the bid and the ask, if it is another tick, the history has fewer
\* than 5 entries and its last entry is more than 1 second old; and nothing
\* otherwise.
C31_AppendCases ==
    [][ (ticks' # ticks /\ tick_in'.price > 0) =>
          LET t == tick_in'
              aged == /\ Len(price_history) < 5 /\ price_history # << >>
                      /\ entry_age > MidAgeLimit
                      /\ bid' > 0 /\ ask' > 0
          IN  price_history' =
                IF t.tickType = 4 THEN Append100(price_history, t.price)
                ELSE IF aged
                     THEN Append100(price_history, (bid' + ask') \div 2)
                     ELSE price_history ]_vars

\* C31, amended: a tick of a positive price appends exactly one entry, its
\* price, if it is a last tick; exactly one entry, the mid of the bid and the
\* ask, if it is another tick, a bid and an ask are known, the history has
\* fewer than 5 entries and it is empty or its last entry is more than 1
\* second old; and nothing otherwise.  A tick of another price appends
\* nothing.  So no tick appends two entries, and with 5 entries or more only
\* last ticks append.
C31_AppendCasesSeeded ==
    [][ (ticks' # ticks) =>
          LET t == tick_in'
              seeded == /\ Len(price_history) < 5
                        /\ (price_history = << >> \/ entry_age > MidAgeLimit)
                        /\ bid' > 0 /\ ask' > 0
          IN  price_history' =
                IF t.price <= 0 THEN price_history
                ELSE IF t.tickType = 4
                     THEN Append100(price_history, t.price)
                ELSE IF seeded
                     THEN Append100(price_history, (bid' + ask') \div 2)
                     ELSE price_history ]_vars

\* an ask tick completing the pair has put the mid into the empty history
C31_Witness ==
    /\ tick_in = [tickType |-> 2, price |-> 102]
    /\ bid = 98 /\ ask = 102 /\ price_history = << 100 >>

\* The strikes listed for the symbol asked about, and the result.
Listed ==
    IF strike_in.symbol \in DOMAIN option_chains
      THEN {option_chains[strike_in.symbol][i] :
              i \in 1..Len(option_chains[strike_in.symbol])}
      ELSE {}
Selected == strike_out[1]

\* C32: with a chain that lists strikes, the strike selected is a listed
\* one: for a call the greatest listed strike at or below the price, for a
\* put the least listed strike at or above it, and, when no listed strike is
\* on that side, a listed strike at the least distance from the price.
C32_StrikeFromChain ==
    (strike_out # << >> /\ Listed # {}) =>
       LET price == strike_in.price
           side  == IF strike_in.direction = "CALL"
                      THEN {s \in Listed : s <= price}
                      ELSE {s \in Listed : s >= price}
       IN  /\ Selected \in Listed
           /\ (side # {} /\ strike_in.direction = "CALL")
                 => (Selected \in side /\ \A s \in side : s <= Selected)
           /\ (side # {} /\ strike_in.direction = "PUT")
                 => (Selected \in side /\ \A s \in side : Selected <= s)
           /\ side = {}
                 => \A s \in Listed :
                       Abs(Selected - price) <= Abs(s - price)

\* a call at 19: the strike 10 below it is selected, not the nearer 20
C32_Witness ==
    /\ strike_in = [symbol |-> "MES", price |-> 19, direction |-> "CALL"]
    /\ option_chains = [s \in {"MES"} |-> << 5, 10, 20 >>]
    /\ strike_out = << 10 >>

\* C33: without a chain for the symbol, the strike selected is the price
\* rounded to the interval of the symbol (5 for MES, 50 otherwise), less one
\* interval for a call, plus one interval for a put.
C33_HeuristicOffset ==
    (strike_out # << >> /\ strike_in.symbol \notin DOMAIN option_chains) =>
       LET interval == IF strike_in.symbol = "MES" THEN 5 ELSE 50
           atm == RoundHalfEven(strike_in.price, interval) * interval
       IN  Selected = IF strike_in.direction = "CALL" THEN atm - interval
                      ELSE atm + interval

\* C34: a cycle that looks for an entry while the chain of its symbol lists
\* no strike places no order, creates no order record and leaves the loop
\* without a position.
C34_NoStrikeNoEntry ==
    [][ (ActStep /\ ~ in_position /\ symbol \in DOMAIN option_chains
           /\ option_chains[symbol] = << >>)
        => /\ placed' = placed
           /\ active_orders' = active_orders
           /\ nextOrderId' = nextOrderId
           /\ ~ in_position'
           /\ current_strike' \in {current_strike, NoStrike} ]_vars

\* an entry signal was acted on with an empty chain: the cycle has gone to
\* the 5 second sleep of lines 600 and 624
C34_Witness ==
    /\ pc = "sleep" /\ sleep_for = 5
    /\ option_chains = [s \in {"MES"} |-> << >>]
    /\ signal \in {"BULLISH", "REVERSAL_UP", "BEARISH", "REVERSAL_DOWN"}
    /\ ~ in_position /\ current_strike = NoStrike

\* C35: when the session has ended on an interrupt with a position open, a
\* Sell order for that position was placed before the disconnect.
C35_CloseOnShutdown ==
    (pc = "exited" /\ in_position)
       => SellIdsOf(Cardinality(Buys(placed))) # {}

\* C36: once the connection is lost, the loop places no Buy order any more.
C36_NoEntryAfterConnectionLost ==
    [][ event.status = "ConnectionLost" => Buys(placed') = Buys(placed) ]_vars

\* C37: the number of trades counted never exceeds the daily maximum.
C37_TradesWithinLimit == trades_today <= config.max_trades_per_day

\* C38: every trade counted is counted as a win or as a loss, never both and
\* never neither, and the total and the daily profit are the same amount.
C38_StatsConsistent ==
    /\ wins + losses = trades_today
    /\ total_pnl = daily_pnl

\* two trades were counted, one of them a loss, one breaking even
C38_Witness ==
    /\ trades_today = 2 /\ wins = 0 /\ losses = 2
    /\ total_pnl < 0 /\ daily_pnl = total_pnl

\* C39: a call of get_static_id for a script that is in the static table
\* gives the identifier of the table and does not write the identifier file.
C39_StaticIdLeavesFile ==
    /\ [](\A p \in DOMAIN procs :
            (procs[p].given # 0 /\ procs[p].script # << >>
               /\ Basename(procs[p].script) \in DOMAIN static_map)
            => procs[p].given = static_map[Basename(procs[p].script)])
    /\ [][ \A p \in DOMAIN procs :
             (procs[p].op = "get" /\ procs[p].pc = "save"
                /\ procs'[p].pc = "unlock" /\ procs[p].script # << >>
                /\ Basename(procs[p].script) \in DOMAIN static_map)
             => id_file' = id_file ]_vars

=============================================================================
